---- MODULE Spec2Model ----
(***************************************************************************)
(* Fabric's host-parameterized task fan-out: fabric/executor.py            *)
(* (Executor.normalize_hosts, Executor.parameterize), fabric/tasks.py      *)
(* (ConnectionCall) and fabric/exceptions.py (NothingToDo,                 *)
(* GroupException).                                                        *)
(*                                                                         *)
(* Python values are modelled as follows.                                  *)
(*   - a dict is the set of its <<key, value>> items;                      *)
(*   - a host specifier is a tagged value [kind, s, d, o]: kind "str"      *)
(*     carries the string s, kind "dict" the dict d, kind "other" a value  *)
(*     that is neither (here an int o);                                    *)
(*   - an exception is [type, elem, result]; NoExc means nothing raised.   *)
(***************************************************************************)
EXTENDS Integers, Sequences, FiniteSets, TLC

\* ---------------------------------------------------------------- bounds
\* Longest host-specifier list drawn as an input.
MaxHosts == 3
\* Most ConnectionCall objects constructed in one behaviour.
MaxCalls == 2
\* Longest host list declared on a task or given on the command line.
MaxDeclared == 2

\* ---------------------------------------------------------------- values
HostStrings == {"a", "b"}

EmptyDict == {}

HostDict(s) == {<<"host", s>>}

\* Mappings a caller may pass in a host list, the empty mapping included.
InputDicts == {EmptyDict, {<<"host", "a">>, <<"user", "u">>}}

\* Values that are neither str nor dict.
OtherValues == {7, 8}

StrSpec(s) == [kind |-> "str", s |-> s, d |-> EmptyDict, o |-> 0]

DictSpec(d) == [kind |-> "dict", s |-> "", d |-> d, o |-> 0]

OtherSpec(o) == [kind |-> "other", s |-> "", d |-> EmptyDict, o |-> o]

NoElem == [kind |-> "none", s |-> "", d |-> EmptyDict, o |-> 0]

ValidSpecs == {StrSpec(s) : s \in HostStrings} \cup {DictSpec(d) : d \in InputDicts}

HostSpecs == ValidSpecs \cup {OtherSpec(o) : o \in OtherValues}

SeqsUpTo(S, n) == UNION {[1..k -> S] : k \in 0..n}

HostLists == SeqsUpTo(HostSpecs, MaxHosts)

isinstance_str(host) == host.kind = "str"

isinstance_dict(host) == host.kind = "dict"

\* ------------------------------------------------------------ exceptions
NoExc == [type |-> "none", elem |-> NoElem, result |-> <<>>]

ValueError(host) == [type |-> "ValueError", elem |-> host, result |-> <<>>]

NameError == [type |-> "NameError", elem |-> NoElem, result |-> <<>>]

NothingToDo == [type |-> "NothingToDo", elem |-> NoElem, result |-> <<>>]

\* A function call's outcome: the value returned, or the exception raised.
Return(v) == [raised |-> NoExc, value |-> v]

Raise(e) == [raised |-> e, value |-> <<>>]

\* ------------------------------------------- Executor.normalize_hosts
RECURSIVE normalize_loop(_, _, _)
\* The body of the loop "for host in hosts" from position i on, with the
\* list `normalized` built so far.
normalize_loop(hosts, i, normalized) ==
    IF i > Len(hosts) THEN Return(normalized)
    ELSE LET host == hosts[i] IN
         IF isinstance_str(host)
         THEN normalize_loop(hosts, i + 1, Append(normalized, HostDict(host.s)))
         ELSE IF isinstance_dict(host)
         THEN normalize_loop(hosts, i + 1, Append(normalized, host.d))
         ELSE Raise(ValueError(host))

RECURSIVE normalize_dedup_loop(_, _, _)
normalize_dedup_loop(hosts, i, normalized) ==
    IF i > Len(hosts) THEN Return(normalized)
    ELSE LET host == hosts[i]
             rec == IF isinstance_str(host) THEN HostDict(host.s) ELSE host.d
         IN  IF ~(isinstance_str(host) \/ isinstance_dict(host))
             THEN Raise(ValueError(host))
             ELSE IF \E j \in DOMAIN normalized : normalized[j] = rec
             THEN normalize_dedup_loop(hosts, i + 1, normalized)
             ELSE normalize_dedup_loop(hosts, i + 1, Append(normalized, rec))

\* normalize_hosts with a deduplication of the records added.
normalize_hosts_dedup(hosts) == normalize_dedup_loop(hosts, 1, <<>>)

RECURSIVE normalize_skip_loop(_, _, _)
normalize_skip_loop(hosts, i, normalized) ==
    IF i > Len(hosts) THEN Return(normalized)
    ELSE LET host == hosts[i] IN
         IF isinstance_str(host)
         THEN normalize_skip_loop(hosts, i + 1, Append(normalized, HostDict(host.s)))
         ELSE IF isinstance_dict(host)
         THEN normalize_skip_loop(hosts, i + 1, Append(normalized, host.d))
         ELSE normalize_skip_loop(hosts, i + 1, normalized)

\* normalize_hosts with the else branch skipping the element instead of
\* raising.
normalize_hosts_skip_invalid(hosts) == normalize_skip_loop(hosts, 1, <<>>)

normalize_hosts(hosts) == normalize_loop(hosts, 1, <<>>)

\* ------------------------------------------------------- Call objects
\* invoke.Call(task, args, kwargs): a deferred invocation. It has no
\* init_kwargs attribute and no bound connection context.
NoContext == 0

Call(task, args, kwargs) ==
    [cls |-> "Call", task |-> task, args |-> args, kwargs |-> kwargs,
     init_kwargs |-> EmptyDict, context |-> NoContext]

\* A ConnectionCall.__init__ that pops init_kwargs and never stores it.
ConnectionCall_dropping_init_kwargs(task, args, kwargs, init_kwargs) ==
    [Call(task, args, kwargs) EXCEPT !.cls = "ConnectionCall"]

\* ConnectionCall.__init__: pops init_kwargs, runs Call.__init__ with the
\* rest, then stores init_kwargs on the object.
ConnectionCall(task, args, kwargs, init_kwargs) ==
    [Call(task, args, kwargs) EXCEPT !.cls = "ConnectionCall",
                                     !.init_kwargs = init_kwargs]

\* A task as the Executor sees it: its name and its hosts attribute
\* (has = FALSE: None, no host list declared).
NoHosts == [has |-> FALSE, list |-> <<>>]

SomeHosts(l) == [has |-> TRUE, list |-> l]

TaskNames == {"deploy"}

\* The generic Calls drawn as inputs.
Calls ==
    {Call(t, <<>>, EmptyDict) : t \in TaskNames}
    \cup {Call(t, <<"x">>, {<<"k", "v">>}) : t \in TaskNames}

\* Connection Parameter Records drawn as inputs of parameterize: records
\* normalize_hosts returns, for a string and for the empty mapping.
Records == {HostDict("a"), EmptyDict}

\* --------------------------------------------- Executor.parameterize
\* The names bound in fabric/executor.py's module namespace (its imports
\* and its class) and by parameterize's local import.
ExecutorGlobals ==
    {"invoke", "Call", "Task", "ConnectionCall", "NothingToDo", "debug", "Executor"}

\* Connection(**init_kwargs): a new Connection object, appended to the
\* heap of Connections; its identity is its position.
NewConnection(conns, init_kwargs) == Append(conns, [init_kwargs |-> init_kwargs])

\* parameterize(call, connection_init_kwargs) on the heap (ccs: the
\* ConnectionCall objects constructed so far, conns: the Connections).
\* Line 66 constructs the ConnectionCall; line 74 evaluates the name
\* Connection, which raises NameError unless executor.py binds it.
parameterize(call, connection_init_kwargs, ccs, conns) ==
    LET connection_call ==
            ConnectionCall(call.task, call.args, call.kwargs, connection_init_kwargs)
    IN  IF "Connection" \in ExecutorGlobals
        THEN LET conns1 == NewConnection(conns, connection_init_kwargs)
                 bound == [connection_call EXCEPT !.context = Len(conns1)]
             IN  [raised |-> NoExc, value |-> Len(ccs) + 1,
                  ccalls |-> Append(ccs, bound), connections |-> conns1]
        ELSE [raised |-> NameError, value |-> 0,
              ccalls |-> Append(ccs, connection_call), connections |-> conns]

\* ------------------------------------- what the operations write to
\* The caller's objects as they are after a call: the host list passed to
\* normalize_hosts (hosts), the record and the Call passed to
\* parameterize, and whether the list returned is a new list object.
NoMem ==
    [hosts |-> <<>>, record |-> EmptyDict,
     call |-> Call("deploy", <<>>, EmptyDict), new_list |-> FALSE]

\* A normalize_hosts that replaces each string of the caller's list by its
\* record in place and returns that same list.
normalize_hosts_in_place_memory(hosts) ==
    [NoMem EXCEPT
        !.hosts = [i \in DOMAIN hosts |->
                     IF isinstance_str(hosts[i])
                     THEN DictSpec(HostDict(hosts[i].s)) ELSE hosts[i]],
        !.new_list = FALSE]

\* normalize_hosts, lines 40-48: "normalized = []" makes a new list, the
\* loop only reads hosts and its elements and appends to normalized; no
\* statement assigns to hosts, to hosts[i] or to a key of a mapping.
normalize_hosts_memory(hosts) ==
    [NoMem EXCEPT !.hosts = hosts, !.new_list = TRUE]

\* parameterize, lines 66-74: the Call's task, args and kwargs are read,
\* the record is stored on the ConnectionCall by reference and unpacked
\* with **; neither object is written.
parameterize_memory(call, connection_init_kwargs) ==
    [NoMem EXCEPT !.call = call, !.record = connection_init_kwargs]

\* ---------------------------------------------- Executor (inherited)
\* The class defines normalize_hosts and parameterize only: expand_calls
\* and execute are invoke.Executor's, which know nothing of hosts. The
\* call of a task is handed on as the one plain Call it is, whatever the
\* task's hosts attribute and the CLI's --hosts value are.
\* expand_calls wrapping the call into a ConnectionCall with empty
\* init_kwargs when no host list is given.
expand_calls_wrapping(call, task_hosts, cli_hosts) ==
    Return(<<ConnectionCall(call.task, call.args, call.kwargs, EmptyDict)>>)

expand_calls(call, task_hosts, cli_hosts) == Return(<<call>>)

\* ----------------------------------------------------- GroupException
\* A GroupException that keeps the failed entries of the result only.
GroupException_failures_only(result) ==
    LET Failed(r) == ~r.ok IN
    [type |-> "GroupException", elem |-> NoElem, result |-> SelectSeq(result, Failed)]

\* GroupException(result): the message is fixed, the result is stored as
\* given (self.result = result).
GroupException(result) ==
    [type |-> "GroupException", elem |-> NoElem, result |-> result]

\* What the installed libraries do where releases differ: whether invoke's
\* Task copies the attributes of the callable it wraps, and whether
\* unittest.mock refuses to start a patch with spec=True on a target that
\* is already a mock (InvalidSpecError) or stacks the patch on it.
NoLib == [copies_attrs |-> FALSE, spec_on_mock_raises |-> FALSE]

\* ------------------------------------------------------ the decorator
\* A callable: its name and its hosts attribute (NoHosts: it has none).
Func(name) == [name |-> name, hosts |-> NoHosts]

FuncNames == {"deploy", "build"}

\* No Task Descriptor (nothing was returned).
NoDesc == [made |-> FALSE, cls |-> "", body |-> "", name |-> "", hosts |-> NoHosts]

\* invoke.Task(body), as line 68 reaches it through invoke.task: a
\* descriptor of the generic layer wrapping the callable under its name.
\* Whether the generic layer also copies the callable's own attributes
\* onto the descriptor (functools.update_wrapper) depends on the invoke
\* release installed: copies tells which.
invoke_Task(func, copies) ==
    [made |-> TRUE, cls |-> "invoke.Task", body |-> func.name, name |-> func.name,
     hosts |-> IF copies THEN func.hosts ELSE NoHosts]

\* Python truth value of the hosts keyword: None and [] are false.
Truthy(hosts) == hosts.has /\ Len(hosts.list) > 0

NoDeco ==
    [form |-> "none", func |-> Func("deploy"), hosts_kw |-> NoHosts,
     desc |-> NoDesc, raised |-> "none", body_runs |-> 0,
     forwarded_hosts |-> FALSE, attached |-> FALSE]

\* wrapper(func), lines 65-68, for the call invoke.task(*args, **kwargs)(func)
\* with args = () (the parenthesized forms): the hosts, when truthy, are
\* set on the callable, and the generic decorator makes the descriptor.
wrapper_parenthesized(func, hosts_kw, copies) ==
    LET func1 == IF Truthy(hosts_kw) THEN [func EXCEPT !.hosts = hosts_kw] ELSE func
    IN  [NoDeco EXCEPT !.form = "paren", !.func = func1, !.hosts_kw = hosts_kw,
                       !.desc = invoke_Task(func1, copies)]

\* wrapper(args[0]), lines 71-72 then 68, for the bare form: args is
\* (func,), so invoke.task(func) is already the descriptor Task(func), and
\* line 68 goes on to call that descriptor with func as its only argument.
\* A Task called with something that is no Context raises TypeError
\* before its body runs.
wrapper_bare(func, copies) ==
    [NoDeco EXCEPT !.form = "bare", !.func = func, !.raised = "TypeError"]

\* task(*args, **kwargs) applied to func: line 63 pops hosts from kwargs,
\* so it never reaches invoke.task; form "bare" is @task, form "paren" is
\* @task(...) with the hosts keyword hosts_kw (NoHosts: not given).
task(form, func, hosts_kw, copies) ==
    IF form = "bare" THEN wrapper_bare(func, copies)
    ELSE wrapper_parenthesized(func, hosts_kw, copies)

\* descriptor.hosts = hosts, by hand.
attach_hosts(desc, hosts) == [desc EXCEPT !.hosts = hosts]

\* --------------------------------------------------------- MockRemote
MaxSessions == 2

MaxCommands == 2

MaxExpects == 2

\* self.patcher before start() sets it: hasattr(self, 'patcher') is false.
NoPatcher == 0

\* Session(host=..., commands=...), Session.__init__: given is the number
\* of Commands handed in, 0 for none; a Session always ends up with at
\* least one Command, and guards only when it was given none.
Session(host, given) ==
    [host |-> host,
     commands |-> IF given = 0 THEN 1 ELSE given,
     guard_only |-> given = 0]

SessionKinds == {Session(h, n) : h \in BOOLEAN, n \in 0..MaxCommands}

SessionLists == SeqsUpTo(SessionKinds, MaxSessions)

\* The MockChannel made for command c of the session at position s.
MockChannel(s, c) == [session |-> s, command |-> c]

\* The MockRemote and the patches of fabric.connection.SSHClient in
\* force: patcher is self.patcher, made counts the patchers created,
\* active holds the started ones, clients is len(self.clients).
NoWorld ==
    [patcher |-> NoPatcher, made |-> 0, active |-> {}, sessions |-> <<>>,
     clients |-> 0]

Result(w, exc, channels) == [world |-> w, raised |-> exc, ret |-> channels]

\* Session.generate_mocks for the session at position i: one channel per
\* Command; with a host, connect.assert_called_with on the fresh Mock
\* client fails.
generate_mocks(session, i) ==
    IF session.host
    THEN [raised |-> "AssertionError", channels |-> <<>>]
    ELSE [raised |-> "none",
          channels |-> [c \in 1..session.commands |-> MockChannel(i, c)]]

\* The loop of MockRemote.start, from session i on.
RECURSIVE start_loop(_, _, _, _)
start_loop(sessions, i, clients, channels) ==
    IF i > Len(sessions)
    THEN [raised |-> "none", clients |-> clients, channels |-> channels]
    ELSE LET g == generate_mocks(sessions[i], i)
         IN  IF g.raised # "none"
             THEN [raised |-> g.raised, clients |-> clients, channels |-> <<>>]
             ELSE start_loop(sessions, i + 1, clients + 1, channels \o g.channels)

\* MockRemote.start: a new patcher is stored and started, then every
\* session generates its mocks and the channels of all of them are
\* returned in one list.
MockRemote_start(w, l) ==
    LET id == w.made + 1
        w1 == [w EXCEPT !.patcher = id, !.made = id]
    IN  IF w.active # {} /\ l.spec_on_mock_raises
        THEN Result(w1, "InvalidSpecError", <<>>)
        ELSE LET r == start_loop(w.sessions, 1, 0, <<>>)
             IN  Result([w1 EXCEPT !.active = @ \cup {id}, !.clients = r.clients],
                          r.raised, r.channels)

\* MockRemote.stop: the stored patcher, if any, is stopped (stopping a
\* stopped patcher does nothing); Session.stop closes mocks only.
MockRemote_stop(w) ==
    [w EXCEPT !.active = IF w.patcher # NoPatcher THEN @ \ {w.patcher} ELSE @]

expect_sessions_without_stop(w, sessions, l) ==
    MockRemote_start([w EXCEPT !.sessions = sessions], l)

\* MockRemote.expect_sessions(*sessions).
expect_sessions(w, sessions, l) ==
    MockRemote_start(MockRemote_stop([w EXCEPT !.sessions = sessions]), l)

\* MockRemote.expect(...): one Session, the first channel or None.
expect(w, session, l) ==
    LET r == expect_sessions(w, <<session>>, l)
    IN  [r EXCEPT !.ret = IF Len(r.ret) > 0 THEN <<r.ret[1]>> ELSE <<>>]

\* MockRemote.__init__: expects one anonymous Session.
MockRemote(l) == expect_sessions(NoWorld, <<Session(FALSE, 0)>>, l)

\* MockRemote.safety: the sessions that got a client are checked; a
\* session that does not only guard fails its checks unless the test
\* did what it expected (met).
safety(w, met) ==
    IF \E i \in 1..Len(w.sessions) :
          i <= w.clients /\ ~w.sessions[i].guard_only /\ ~met
    THEN "AssertionError"
    ELSE "none"

after_safety_without_finally(exc) ==
    IF exc = "none" THEN "finally" ELSE "left"

\* MockRemote.__exit__ and the teardown of the remote fixture: safety()
\* sits in a try whose finally clause calls stop(), so stop() comes next
\* whether or not safety() raised.
after_safety(exc) == "finally"

\* What a call found: the stored patcher and the patches in force.
Before(w) == [patcher |-> w.patcher, active |-> w.active]

NoCtl ==
    [stage |-> "none", mode |-> "plain", op |-> "none", input |-> <<>>,
     before |-> Before(NoWorld), ret |-> <<>>, raised |-> "none", pending |-> "none",
     log |-> <<>>, calls |-> 0]

\* ------------------------------------------------------------- state
VARIABLES
    pc,          \* "ready": the caller may run an operation; "returned": one has ended
    op,          \* the last operation run: its name and its arguments
    raised,      \* the exception the last operation raised, or NoExc
    ret,         \* what the last operation returned
    ccalls,      \* heap: ConnectionCall objects constructed so far
    connections, \* heap: Connection objects constructed so far
    dispatched,  \* the calls the last execute handed to the task engine
    built,       \* number of ConnectionCalls the last operation constructed
    mem,         \* the caller's argument objects as the last operation left them
    fo_hosts,    \* fan-out: the effective host list of the batch
    batch,       \* fan-out: the ConnectionCalls handed to the task engine
    status,      \* fan-out: per call "pending", "running" or "done"
    attempts,    \* fan-out: per call, how often the engine started it
    thrown,      \* fan-out: per call, the exception its body raised (0: none)
    order,       \* fan-out: the calls in the order they completed
    final,       \* fan-out: what the caller got, a collection or an exception
    lib,         \* decoration: what the installed generic task layer does
    deco,        \* decoration: the last use of the task decorator and its outcome
    world,       \* mocking: the MockRemote object and the patches in force
    ctl          \* mocking: where the test using the MockRemote stands

apivars == <<pc, op, raised, ret, ccalls, connections, dispatched, built, mem>>

fovars == <<fo_hosts, batch, status, attempts, thrown, order, final>>

taskvars == <<lib, deco>>

mockvars == <<world, ctl>>

extvars == <<taskvars, mockvars>>

vars == <<pc, op, raised, ret, ccalls, connections, dispatched, built, mem,
          fo_hosts, batch, status, attempts, thrown, order, final,
          lib, deco, world, ctl>>

NoRet == [kind |-> "none", list |-> <<>>, cc |-> 0]

ListRet(l) == [kind |-> "list", list |-> l, cc |-> 0]

CallRet(id) == [kind |-> "ccall", list |-> <<>>, cc |-> id]

NoOp ==
    [name |-> "none", hosts |-> <<>>, call |-> Call("deploy", <<>>, EmptyDict),
     record |-> EmptyDict, task_hosts |-> NoHosts, cli_hosts |-> NoHosts]

NoFinal == [kind |-> "none", result |-> <<>>, exc |-> NoExc]

InitApi ==
    /\ pc = "ready"
    /\ op = NoOp
    /\ raised = NoExc
    /\ ret = NoRet
    /\ ccalls = <<>>
    /\ connections = <<>>
    /\ dispatched = <<>>
    /\ built = 0
    /\ mem = NoMem

NoFanOut ==
    /\ fo_hosts = <<>>
    /\ batch = <<>>
    /\ status = <<>>
    /\ attempts = <<>>
    /\ thrown = <<>>
    /\ order = <<>>
    /\ final = NoFinal

NoTask ==
    /\ lib = NoLib
    /\ deco = NoDeco

NoMock ==
    /\ world = NoWorld
    /\ ctl = NoCtl

NoExt == NoTask /\ NoMock

Init == InitApi /\ NoFanOut /\ NoExt

\* A caller runs executor.normalize_hosts(hosts).
NormalizeHosts(hosts) ==
    LET r == normalize_hosts(hosts) IN
    /\ pc = "ready"
    /\ pc' = "returned"
    /\ op' = [NoOp EXCEPT !.name = "normalize_hosts", !.hosts = hosts]
    /\ raised' = r.raised
    /\ ret' = IF r.raised = NoExc THEN ListRet(r.value) ELSE NoRet
    /\ mem' = normalize_hosts_memory(hosts)
    /\ built' = 0
    /\ dispatched' = <<>>
    /\ UNCHANGED <<ccalls, connections>>
    /\ UNCHANGED fovars
    /\ UNCHANGED extvars

\* A caller runs executor.parameterize(call, record).
Parameterize(call, record) ==
    LET r == parameterize(call, record, ccalls, connections) IN
    /\ pc = "ready"
    /\ Len(ccalls) < MaxCalls
    /\ pc' = "returned"
    /\ op' = [NoOp EXCEPT !.name = "parameterize", !.call = call, !.record = record]
    /\ raised' = r.raised
    /\ ret' = IF r.raised = NoExc THEN CallRet(r.value) ELSE NoRet
    /\ mem' = parameterize_memory(call, record)
    /\ ccalls' = r.ccalls
    /\ connections' = r.connections
    /\ built' = Len(r.ccalls) - Len(ccalls)
    /\ dispatched' = <<>>
    /\ UNCHANGED fovars
    /\ UNCHANGED extvars

\* The program runs a task through the Executor: task_hosts is the task's
\* hosts attribute, cli_hosts the --hosts override.
Execute(call, task_hosts, cli_hosts) ==
    LET r == expand_calls(call, task_hosts, cli_hosts) IN
    /\ pc = "ready"
    /\ pc' = "returned"
    /\ op' = [NoOp EXCEPT !.name = "execute", !.call = call,
                          !.task_hosts = task_hosts, !.cli_hosts = cli_hosts]
    /\ raised' = r.raised
    /\ ret' = NoRet
    /\ mem' = NoMem
    /\ dispatched' = r.value
    /\ built' = 0
    /\ UNCHANGED <<ccalls, connections>>
    /\ UNCHANGED fovars
    /\ UNCHANGED extvars

\* The caller has taken the outcome of the last operation and goes on; the
\* objects constructed so far stay on the heap.
CallerContinues ==
    /\ pc = "returned"
    /\ pc' = "ready"
    /\ op' = NoOp
    /\ raised' = NoExc
    /\ ret' = NoRet
    /\ mem' = NoMem
    /\ dispatched' = <<>>
    /\ built' = 0
    /\ UNCHANGED <<ccalls, connections>>
    /\ UNCHANGED fovars
    /\ UNCHANGED extvars

\* Host lists declared on a task or given on the command line.
StringLists == SeqsUpTo({StrSpec(s) : s \in HostStrings}, MaxDeclared)

OptionalStringLists == {NoHosts} \cup {SomeHosts(l) : l \in StringLists}

Next ==
    \/ \E hosts \in HostLists : NormalizeHosts(hosts)
    \/ \E call \in Calls, record \in Records : Parameterize(call, record)
    \/ \E call \in Calls, th \in OptionalStringLists, ch \in OptionalStringLists :
          Execute(call, th, ch)
    \/ CallerContinues

Spec == Init /\ [][Next]_vars

\* ================================================================
\* The fan-out over a resolved, non-empty host list: the PARAMETERIZED,
\* DISPATCH, COLLECT and RETURN | RAISE_AGGREGATE states of the Fan-Out
\* Executor. The Executor class defines no expand_calls or execute of its
\* own and fabric/exceptions.py only declares GroupException, so this
\* part follows the design's sections 4.3, 5 and 7; normalize_hosts,
\* ConnectionCall and GroupException in it are the ones defined above.

\* Longest host list of a batch.
MaxBatch == 3

FanOutSpecs ==
    {StrSpec(s) : s \in HostStrings}
    \cup {DictSpec({<<"host", "a">>, <<"user", "u">>})}

FanOutLists == SeqsUpTo(FanOutSpecs, MaxBatch) \ {<<>>}

FanOutCall == Call("deploy", <<"x">>, {<<"k", "v">>})

\* PARAMETERIZED: one ConnectionCall per Connection Parameter Record, in
\* normalized host order, each with the task and arguments of the call and
\* a connection context of its own (context i for call i).
FanOutBatch(call, hosts) ==
    LET records == normalize_hosts(hosts).value IN
    [i \in DOMAIN records |->
        [ConnectionCall(call.task, call.args, call.kwargs, records[i])
            EXCEPT !.context = i]]

\* The outcome of call i: tagged with the call and its host identity,
\* a success, or a failure holding the exception its body raised.
Outcome(calls, exceptions, i) ==
    [call |-> i, host |-> calls[i].init_kwargs,
     ok |-> exceptions[i] = 0, exc |-> exceptions[i]]

InitFanOut ==
    /\ InitApi
    /\ NoExt
    /\ fo_hosts \in FanOutLists
    /\ batch = FanOutBatch(FanOutCall, fo_hosts)
    /\ status = [i \in DOMAIN batch |-> "pending"]
    /\ attempts = [i \in DOMAIN batch |-> 0]
    /\ thrown = [i \in DOMAIN batch |-> 0]
    /\ order = <<>>
    /\ final = NoFinal

\* The engine starts a call that fails as soon as another call has failed.
MayStartUnlessFailed(st, exceptions, i) ==
    st[i] = "pending" /\ \A j \in DOMAIN exceptions : exceptions[j] = 0

\* DISPATCH: the engine may start any call of the batch not yet started,
\* whatever the other calls did; a call is never started again.
MayStart(st, exceptions, i) == st[i] = "pending"

\* The task engine starts call i of the batch.
Start(i) ==
    /\ final.kind = "none"
    /\ MayStart(status, thrown, i)
    /\ status' = [status EXCEPT ![i] = "running"]
    /\ attempts' = [attempts EXCEPT ![i] = @ + 1]
    /\ UNCHANGED <<fo_hosts, batch, thrown, order, final>>
    /\ UNCHANGED apivars
    /\ UNCHANGED extvars

\* The body of call i ends: it returns (failed = FALSE) or raises an
\* exception of its own (exception i).
Finish(i, failed) ==
    /\ status[i] = "running"
    /\ status' = [status EXCEPT ![i] = "done"]
    /\ thrown' = [thrown EXCEPT ![i] = IF failed THEN i ELSE 0]
    /\ order' = Append(order, i)
    /\ UNCHANGED <<fo_hosts, batch, attempts, final>>
    /\ UNCHANGED apivars
    /\ UNCHANGED extvars

\* A collection that lets the first per-host exception through.
CollectedFirstFailure(calls, exceptions, completed) ==
    LET results == [i \in DOMAIN calls |-> Outcome(calls, exceptions, i)] IN
    IF \E i \in DOMAIN results : ~results[i].ok
    THEN [kind |-> "raised", result |-> <<>>,
          exc |-> [type |-> "BodyError", elem |-> NoElem, result |-> <<>>]]
    ELSE [kind |-> "returned", result |-> results, exc |-> NoExc]

\* A collection that gathers the outcomes in completion order.
CollectedInCompletionOrder(calls, exceptions, completed) ==
    LET results ==
            [k \in DOMAIN completed |-> Outcome(calls, exceptions, completed[k])]
    IN  IF \E i \in DOMAIN results : ~results[i].ok
        THEN [kind |-> "raised", result |-> <<>>, exc |-> GroupException(results)]
        ELSE [kind |-> "returned", result |-> results, exc |-> NoExc]

\* COLLECT and RETURN | RAISE_AGGREGATE: one outcome per call in batch
\* order; all succeeded: the collection is returned; otherwise one
\* GroupException wrapping the complete collection is raised.
Collected(calls, exceptions, completed) ==
    LET results == [i \in DOMAIN calls |-> Outcome(calls, exceptions, i)] IN
    IF \E i \in DOMAIN results : ~results[i].ok
    THEN [kind |-> "raised", result |-> <<>>, exc |-> GroupException(results)]
    ELSE [kind |-> "returned", result |-> results, exc |-> NoExc]

\* Every call of the batch has completed: the outcomes are collected and
\* handed to the caller.
Collect ==
    /\ final.kind = "none"
    /\ \A i \in DOMAIN batch : status[i] = "done"
    /\ final' = Collected(batch, thrown, order)
    /\ UNCHANGED <<fo_hosts, batch, status, attempts, thrown, order>>
    /\ UNCHANGED apivars
    /\ UNCHANGED extvars

NextFanOut ==
    \/ \E i \in DOMAIN batch : Start(i)
    \/ \E i \in DOMAIN batch, failed \in BOOLEAN : Finish(i, failed)
    \/ Collect

\* The engine keeps taking steps while one is possible: it runs the batch
\* to its end.
SpecFanOut == InitFanOut /\ [][NextFanOut]_vars /\ WF_vars(NextFanOut)

\* ================================================================
\* The task decorator, fabric/tasks.py lines 19-75.

\* Host lists given to the decorator: None, the empty list, any list.
DecoratorHosts == {NoHosts} \cup {SomeHosts(l) : l \in HostLists}

InitTask ==
    /\ InitApi
    /\ NoFanOut
    /\ lib \in {[NoLib EXCEPT !.copies_attrs = c] : c \in BOOLEAN}
    /\ deco = NoDeco
    /\ NoMock

\* A module is loaded: @task, @task() or @task(hosts=...) decorates func.
Decorate(form, func, hosts_kw) ==
    /\ deco.form = "none"
    /\ form = "bare" => hosts_kw = NoHosts
    /\ deco' = task(form, func, hosts_kw, lib.copies_attrs)
    /\ UNCHANGED <<lib, apivars, fovars, mockvars>>

\* The descriptor just made gets a host list by hand.
AttachHosts(hosts) ==
    /\ deco.desc.made
    /\ ~deco.attached
    /\ deco' = [deco EXCEPT !.desc = attach_hosts(@, hosts), !.attached = TRUE]
    /\ UNCHANGED <<lib, apivars, fovars, mockvars>>

NextTask ==
    \/ \E form \in {"bare", "paren"}, f \in FuncNames, h \in DecoratorHosts :
          Decorate(form, Func(f), h)
    \/ \E h \in OptionalStringLists : AttachHosts(h)

SpecTask == InitTask /\ [][NextTask]_vars

\* ================================================================
\* MockRemote in a test, fabric/testing/base.py and fixtures.py.

InitMock ==
    /\ InitApi
    /\ NoFanOut
    /\ lib \in {[NoLib EXCEPT !.spec_on_mock_raises = b] : b \in BOOLEAN}
    /\ deco = NoDeco
    /\ NoMock

InUse == ctl.stage = "open" /\ ctl.calls < MaxExpects

Called(name, input, r) ==
    [ctl EXCEPT !.op = name, !.input = input, !.before = Before(world), !.ret = r.ret,
                !.raised = r.raised, !.calls = @ + 1]

\* MockRemote() as such, in a with statement, or by the remote fixture.
Construct(mode) ==
    /\ ctl.stage = "none"
    /\ LET r == MockRemote(lib)
       IN  /\ world' = r.world
           /\ ctl' = [ctl EXCEPT !.stage = "open", !.mode = mode, !.op = "init",
                                 !.input = <<Session(FALSE, 0)>>,
                                 !.ret = r.ret, !.raised = r.raised]
    /\ UNCHANGED <<apivars, fovars, taskvars>>

Expect(session) ==
    /\ InUse
    /\ LET r == expect(world, session, lib)
       IN  /\ world' = r.world
           /\ ctl' = Called("expect", <<session>>, r)
    /\ UNCHANGED <<apivars, fovars, taskvars>>

ExpectSessions(sessions) ==
    /\ InUse
    /\ LET r == expect_sessions(world, sessions, lib)
       IN  /\ world' = r.world
           /\ ctl' = Called("expect_sessions", sessions, r)
    /\ UNCHANGED <<apivars, fovars, taskvars>>

\* stop() called by the test itself.
Stop ==
    /\ ctl.stage = "open"
    /\ ctl.op # "stop"
    /\ world' = MockRemote_stop(world)
    /\ ctl' = [ctl EXCEPT !.op = "stop", !.before = Before(world), !.ret = <<>>,
                          !.raised = "none"]
    /\ UNCHANGED <<apivars, fovars, taskvars>>

\* The with block is left (__exit__ entered), or the fixture resumes
\* after its yield.
LeaveBlock ==
    /\ ctl.stage = "open"
    /\ ctl.mode \in {"with", "fixture"}
    /\ ctl' = [ctl EXCEPT !.stage = "exiting"]
    /\ UNCHANGED <<world, apivars, fovars, taskvars>>

\* self.safety() inside the try.
Safety(met) ==
    /\ ctl.stage = "exiting"
    /\ LET exc == safety(world, met)
       IN  ctl' = [ctl EXCEPT !.stage = after_safety(exc), !.pending = exc,
                              !.log = Append(@, "safety")]
    /\ UNCHANGED <<world, apivars, fovars, taskvars>>

\* self.stop() in the finally clause; what safety() raised goes on.
FinallyStop ==
    /\ ctl.stage = "finally"
    /\ world' = MockRemote_stop(world)
    /\ ctl' = [ctl EXCEPT !.stage = "left", !.op = "stop",
                          !.before = Before(world), !.ret = <<>>,
                          !.raised = ctl.pending, !.log = Append(@, "stop")]
    /\ UNCHANGED <<apivars, fovars, taskvars>>

NextMock ==
    \/ \E mode \in {"plain", "with", "fixture"} : Construct(mode)
    \/ \E session \in SessionKinds : Expect(session)
    \/ \E sessions \in SessionLists : ExpectSessions(sessions)
    \/ Stop
    \/ LeaveBlock
    \/ \E met \in BOOLEAN : Safety(met)
    \/ FinallyStop

SpecMock ==
    /\ InitMock
    /\ [][NextMock]_vars
    /\ WF_vars(\E met \in BOOLEAN : Safety(met))
    /\ WF_vars(FinallyStop)

\* ================================================================
\* Claims about the Executor's operations, checked under Spec.

Valid(host) == isinstance_str(host) \/ isinstance_dict(host)

NormalizeReturned == pc = "returned" /\ op.name = "normalize_hosts"

ExecuteReturned == pc = "returned" /\ op.name = "execute"

ParameterizeReturned == pc = "returned" /\ op.name = "parameterize"

\* The record the normalization rule gives for one valid specifier.
RecordOf(host) == IF isinstance_str(host) THEN {<<"host", host.s>>} ELSE host.d

\* C1: for every host list of strings and mappings, normalize_hosts
\* returns a list of the same length in the same order, {host: s} at the
\* position of the string s and the mapping itself at the position of a
\* mapping; duplicates are kept.
C1_NormalizeKeepsOrderAndLength ==
    (NormalizeReturned /\ \A i \in DOMAIN op.hosts : Valid(op.hosts[i]))
    => /\ raised = NoExc
       /\ ret.kind = "list"
       /\ Len(ret.list) = Len(op.hosts)
       /\ \A i \in DOMAIN op.hosts : ret.list[i] = RecordOf(op.hosts[i])

\* A mixed list with a duplicate has been normalized.
C1_Witness ==
    /\ NormalizeReturned
    /\ ret.kind = "list"
    /\ Len(op.hosts) = 3
    /\ op.hosts[1] = op.hosts[3]
    /\ isinstance_str(op.hosts[1])
    /\ isinstance_dict(op.hosts[2])

\* The first position of hosts holding neither a string nor a mapping.
FirstInvalid(hosts) ==
    CHOOSE i \in DOMAIN hosts :
        ~Valid(hosts[i]) /\ \A j \in 1..(i - 1) : Valid(hosts[j])

\* C4 (as claimed): with a non-empty CLI override, the calls dispatched
\* are the fan-out over exactly the override list, whatever the task
\* declares.
FannedOutOver(l) ==
    /\ Len(dispatched) = Len(l)
    /\ \A i \in DOMAIN l :
          /\ dispatched[i].cls = "ConnectionCall"
          /\ dispatched[i].init_kwargs = RecordOf(l[i])

C4_CliOverrideWins ==
    (ExecuteReturned /\ op.cli_hosts.has /\ Len(op.cli_hosts.list) > 0)
    => FannedOutOver(op.cli_hosts.list)

\* C5: with neither a CLI override nor a task-level host list, exactly one
\* Call is dispatched, the plain Call itself, with no init_kwargs, and no
\* ConnectionCall is built.
C5_NoHostsOnePlainCall ==
    (ExecuteReturned /\ ~op.cli_hosts.has /\ ~op.task_hosts.has)
    => /\ raised = NoExc
       /\ dispatched = <<op.call>>
       /\ dispatched[1].cls = "Call"
       /\ dispatched[1].init_kwargs = EmptyDict
       /\ built = 0

\* A task with arguments and no hosts has been run with no override.
C5_Witness ==
    /\ ExecuteReturned
    /\ ~op.cli_hosts.has
    /\ ~op.task_hosts.has
    /\ op.call.args # <<>>
    /\ Len(dispatched) = 1

\* The effective host list of a request, as the RESOLVE_HOSTS rule gives
\* it: the override if non-empty, else the task's list, else none.
CliWins(o) == o.cli_hosts.has /\ Len(o.cli_hosts.list) > 0

ResolvedEmpty(o) == ~CliWins(o) /\ o.task_hosts.has /\ o.task_hosts.list = <<>>

\* C6 (as claimed): a resolved but empty host list raises NothingToDo and
\* nothing is built or dispatched.
C6_EmptyHostsNothingToDo ==
    (ExecuteReturned /\ ResolvedEmpty(op))
    => /\ raised = NothingToDo
       /\ dispatched = <<>>
       /\ built = 0

\* C9 (as claimed): every parameterize call returns a ConnectionCall whose
\* context is a Connection constructed by that call, so there are as many
\* Connections as ConnectionCalls and no two calls hold the same one.
C9_FreshConnectionPerCall ==
    ParameterizeReturned
    => /\ raised = NoExc
       /\ ret.kind = "ccall"
       /\ Len(connections) = Len(ccalls)
       /\ \A i \in DOMAIN ccalls : ccalls[i].context # NoContext
       /\ \A i, j \in DOMAIN ccalls :
             i # j => ccalls[i].context # ccalls[j].context

\* C10: a list with an element that is neither a string nor a mapping
\* makes normalize_hosts raise ValueError naming the first such element;
\* nothing is returned, not even the records of the valid elements before
\* it, and no ConnectionCall is built or dispatched.
C10_InvalidSpecRaises ==
    (NormalizeReturned /\ \E i \in DOMAIN op.hosts : ~Valid(op.hosts[i]))
    => /\ raised = ValueError(op.hosts[FirstInvalid(op.hosts)])
       /\ ret = NoRet
       /\ built = 0
       /\ dispatched = <<>>

\* A list with a valid element followed by two different invalid ones has
\* been refused.
C10_Witness ==
    /\ NormalizeReturned
    /\ Len(op.hosts) = 3
    /\ Valid(op.hosts[1])
    /\ ~Valid(op.hosts[2])
    /\ ~Valid(op.hosts[3])
    /\ op.hosts[2] # op.hosts[3]
    /\ raised.type = "ValueError"

C14_ParameterizeBindsContext ==
    ParameterizeReturned
    => /\ raised = NoExc
       /\ ret.kind = "ccall"
       /\ ccalls[ret.cc].cls = "ConnectionCall"
       /\ ccalls[ret.cc].task = op.call.task
       /\ ccalls[ret.cc].args = op.call.args
       /\ ccalls[ret.cc].kwargs = op.call.kwargs
       /\ ccalls[ret.cc].init_kwargs = op.record
       /\ ccalls[ret.cc].context # NoContext
       /\ connections[ccalls[ret.cc].context].init_kwargs = op.record
       /\ mem.call = op.call

\* C15 (as claimed): every ConnectionCall that parameterize builds from a
\* record normalize_hosts can return has non-empty init_kwargs.
C15_InitKwargsNonEmpty ==
    \A i \in DOMAIN ccalls :
        ccalls[i].cls = "ConnectionCall" => ccalls[i].init_kwargs # EmptyDict

\* C15 (amended): the ConnectionCall that parameterize builds from the
\* record r has init_kwargs r, so it is non-empty exactly when r is; the
\* record of a string is never empty, an empty mapping stays empty.
C15_InitKwargsAreTheRecord ==
    /\ ParameterizeReturned =>
          /\ built = 1
          /\ ccalls[Len(ccalls)].cls = "ConnectionCall"
          /\ ccalls[Len(ccalls)].init_kwargs = op.record
          /\ (ccalls[Len(ccalls)].init_kwargs # EmptyDict) <=> (op.record # EmptyDict)
    /\ (NormalizeReturned /\ ret.kind = "list") =>
          \A i \in DOMAIN ret.list :
              (ret.list[i] = EmptyDict) <=> (op.hosts[i] = DictSpec(EmptyDict))

\* parameterize has built a ConnectionCall from the record of a string
\* after one from the empty mapping.
C15_Witness ==
    /\ ParameterizeReturned
    /\ op.record = HostDict("a")
    /\ Len(ccalls) = 2
    /\ ccalls[1].init_kwargs = EmptyDict
    /\ ccalls[2].init_kwargs # EmptyDict

\* ================================================================
\* Claims about the fan-out, checked under SpecFanOut.

Ended == final.kind # "none"

\* The collection the caller can inspect: returned, or wrapped in the
\* exception raised.
Inspectable == IF final.kind = "raised" THEN final.exc.result ELSE final.result

SomeFailed == \E i \in DOMAIN thrown : thrown[i] # 0

\* C2: a fan-out with at least one per-host failure raises one
\* GroupException whose result holds all n outcomes in host-list order,
\* successes and failures, each failure with the exception its body raised.
C2_AggregateHoldsAllOutcomes ==
    (Ended /\ SomeFailed)
    => /\ final.kind = "raised"
       /\ final.exc.type = "GroupException"
       /\ Len(final.exc.result) = Len(batch)
       /\ \A i \in DOMAIN batch :
             /\ final.exc.result[i].call = i
             /\ final.exc.result[i].ok = (thrown[i] = 0)
             /\ final.exc.result[i].exc = thrown[i]

\* Two hosts, the first succeeded and the second failed.
C2_Witness ==
    /\ Ended
    /\ Len(batch) = 2
    /\ thrown[1] = 0
    /\ thrown[2] # 0

\* C3: every call of the batch is eventually attempted, and never more
\* than once, whatever the other calls did.
C3_AllAttemptedOnce ==
    /\ [](\A i \in DOMAIN batch : attempts[i] <= 1)
    /\ <>(\A i \in DOMAIN batch : attempts[i] = 1)

\* The first call failed and all three calls were attempted once.
C3_Witness ==
    /\ Len(batch) = 3
    /\ order # <<>>
    /\ order[1] = 1
    /\ thrown[1] # 0
    /\ \A i \in DOMAIN batch : attempts[i] = 1

\* C7: a fan-out returns the collection iff every per-host execution
\* succeeded and raises one GroupException iff at least one failed; no
\* other exception reaches the caller.
C7_ReturnOrAggregate ==
    /\ final.exc.type \in {"none", "GroupException"}
    /\ Ended =>
          /\ final.kind \in {"returned", "raised"}
          /\ (final.kind = "returned") <=> ~SomeFailed
          /\ (final.kind = "raised") <=> SomeFailed
          /\ (final.kind = "returned") =>
                (final.exc = NoExc /\ Len(final.result) = Len(batch))
          /\ (final.kind = "raised") => final.exc.type = "GroupException"

\* Two hosts, both succeeded, the collection was returned.
C7_Witness ==
    /\ final.kind = "returned"
    /\ fo_hosts = <<StrSpec("a"), StrSpec("b")>>
    /\ ~SomeFailed

\* C8: whatever the completion order, the collection holds one outcome per
\* call, and outcome i is that of call i, tagged with the i-th record of
\* the normalized host list.
C8_OutcomesInHostOrder ==
    Ended
    => /\ Len(Inspectable) = Len(batch)
       /\ \A i \in DOMAIN batch :
             /\ Inspectable[i].call = i
             /\ Inspectable[i].host = RecordOf(fo_hosts[i])

\* Three calls completed in the order 3, 1, 2 and were collected.
C8_Witness ==
    /\ Ended
    /\ order = <<3, 1, 2>>

\* ================================================================
\* Claims about the task decorator, checked under SpecTask.

Decorated(form) == deco.form = form /\ ~deco.attached

\* C11 (as claimed): task(hosts=H) yields a descriptor whose hosts
\* attribute is H, as a descriptor made with task() and given H by hand
\* has it; hosts is not forwarded to the generic layer.
C11_HostsKeywordIsMetadata ==
    (Decorated("paren") /\ deco.hosts_kw.has)
    => /\ deco.raised = "none"
       /\ deco.desc.made
       /\ deco.desc.hosts = deco.hosts_kw
       /\ deco.desc.hosts =
             attach_hosts(task("paren", Func(deco.func.name), NoHosts,
                               lib.copies_attrs).desc,
                          deco.hosts_kw).hosts
       /\ ~deco.forwarded_hosts

\* C12 (as claimed): @task and @task() yield an equivalent descriptor for
\* the same callable, and neither runs the body at decoration time.
C12_BareEqualsParenthesized ==
    Decorated("bare")
    => /\ deco.raised = "none"
       /\ deco.desc.made
       /\ deco.desc = task("paren", deco.func, NoHosts, lib.copies_attrs).desc
       /\ deco.body_runs = 0

\* ================================================================
\* Claims about MockRemote, checked under SpecMock.

ExpectSessionsReturned == ctl.op = "expect_sessions" /\ ctl.raised = "none"

\* C16 (as claimed): expect_sessions returns exactly one MockChannel per
\* input Session, in session order, whatever the sessions' commands.
C16_OneChannelPerSession ==
    ExpectSessionsReturned
    => /\ Len(ctl.ret) = Len(ctl.input)
       /\ \A i \in 1..Len(ctl.ret) : ctl.ret[i].session = i

Expected == ctl.op \in {"init", "expect", "expect_sessions"}

\* C17: after construction and after every expect / expect_sessions,
\* exactly one patcher is active and it is the one just started: the
\* patcher stored before the call is stopped, the sessions are the ones
\* just given; after stop() no patcher is active.
C17_OnePatcherActive ==
    /\ Expected
       => /\ Cardinality(world.active) = 1
          /\ world.active = {world.patcher}
          /\ world.patcher # ctl.before.patcher
          /\ ctl.before.patcher \notin world.active
          /\ world.sessions = ctl.input
    /\ ctl.op = "stop" => world.active = {}

\* A second expectation replaced the first one's patcher and sessions,
\* and a stop() after an expectation left nothing patched.
C17_Witness ==
    \/ /\ ctl.op = "expect_sessions"
       /\ ctl.calls = MaxExpects
       /\ Len(ctl.input) = MaxSessions
       /\ ctl.before.active # {}
       /\ world.active = {world.patcher}
    \/ /\ ctl.op = "stop"
       /\ ctl.stage = "open"
       /\ ctl.calls > 0
       /\ ctl.before.active # {}
       /\ world.active = {}

Left == ctl.stage = "left"

\* C18: leaving the with block or tearing down the remote fixture runs
\* safety() and then stop(), and stop() is reached in every execution,
\* also when safety() raises; once left, nothing is patched.
C18_ExitAlwaysStops ==
    /\ [](ctl.stage = "exiting" => <>Left)
    /\ [](Left => /\ ctl.log = <<"safety", "stop">>
                  /\ world.active = {})

\* The block was left with the failure of a safety check going on, and
\* stop() has run all the same.
C18_Witness ==
    /\ Left
    /\ ctl.raised = "AssertionError"
    /\ ctl.log = <<"safety", "stop">>
    /\ ctl.before.active # {}
    /\ world.active = {}

====
